---- MODULE Spec2Model ----
(***************************************************************************)
(* The App component of src/App.tsx as a state machine: the nine useState  *)
(* cells, the event handlers, and the asynchronous continuations of        *)
(* handleSubmit and handleExampleSelect that are suspended at an await.    *)
(* A step is one handler run (or one resumed continuation) up to its next  *)
(* await or return; React applies the state updates of such a run together.*)
(***************************************************************************)
EXTENDS Integers, Sequences, FiniteSets, Bags

(* ---------------------------------------------------------------- bounds *)

\* In-flight handleSubmit invocations the model follows at once.
MaxPending == 2
\* In-flight handleExampleSelect invocations the model follows at once.
MaxFetches == 1
\* Object URLs URL.createObjectURL hands out before the model stops ingesting.
MaxUrls == 2

(* ------------------------------------------------------------- constants *)

\* .slice(0, 5) at src/App.tsx:112
HISTORY_LIMIT == 5

\* JavaScript null, for the cells that hold a string token or null.
Null == "null"

\* The three fixed messages of the component.
ValidationMsg == "Please provide an image and a descriptive prompt."
ExampleLoadMsg == "Sorry, we couldn't load that example. Please try another or upload your own image."
UnexpectedMsg == "An unexpected error occurred. Please try again."

(* ---------------------------------------------------------------- inputs *)

\* A prompt text is a sequence of characters; " " is the whitespace character.
Whitespace == {" "}

\* Texts typed into the textarea in Spec (the empty text is the initial one):
\* whitespace only, an instruction with padding, and a second instruction.
PromptTexts == {<<" ">>, <<" ", "a">>, <<"b">>}

\* Texts typed in SpecLedger: whitespace only, and six distinct instructions.
LedgerTexts == {<<" ">>, <<" ", "a">>, <<"b">>, <<"c">>, <<"d">>, <<"e">>, <<"f">>}

\* Stand-in for the twelve examplePrompts (src/App.tsx:16-29), none blank.
examplePrompts == {<<"b">>}

\* Files the user can pick in ImageUpload.
Files == {"photo.png"}

\* Examples offered by ExampleGallery: an image url and its prompt.
Examples == {[imageUrl |-> "/examples/cat.jpg", examplePrompt |-> <<"b">>]}

\* Results editImageWithGemini can resolve with.
Results == {"R1", "R2"}

\* editedResult?.imageUrl: the data url of a result, "" when there is none.
ImageUrlOf(result) ==
  CASE result = "R1" -> "data:image/png;base64,R1"
    [] result = "R2" -> "data:image/png;base64,R2"
    [] OTHER -> ""

\* Arguments handleDownloadRequest can be called with.
ImageUrls == {ImageUrlOf(r) : r \in Results} \cup {""}

\* What editImageWithGemini can reject with: an Error carrying a message, or
\* a value that is not an Error.
ServiceFailures ==
  { [isError |-> TRUE, message |-> "The service refused the request."],
    [isError |-> FALSE, message |-> ""] }

\* Why AdModal calls onClose: the interstitial ran to its end, or the user
\* dismissed it. The callback carries no argument (line 251).
CloseReasons == {"acknowledged", "dismissed"}

(* ----------------------------------------------------------------- state *)

VARIABLES
  originalImage,         \* File | null                       (line 33)
  originalImagePreview,  \* object URL number, 0 for null     (line 34)
  prompt,                \* string                            (line 35)
  promptHistory,         \* string[]                          (line 36)
  editedResult,          \* EditImageResult | null            (line 37)
  isLoading,             \* boolean                           (line 38)
  error,                 \* string | null                     (line 39)
  isAdModalOpen,         \* boolean                           (line 40)
  imageToDownload,       \* string | null                     (line 41)
  submits,               \* bag of handleSubmit invocations suspended at an await
  fetches,               \* bag of handleExampleSelect invocations suspended at
                         \* an await
  urlCount,              \* object URLs created so far; none is ever revoked
  saved,                 \* the output sink: the hrefs of the links the last
                         \* step clicked, in order
  outcome,               \* what the service call that the last step resumed
                         \* from had settled with, if it resumed from one
  lastRecord,            \* history variable: what the last run of the
                         \* setPromptHistory updater did
  closing                \* why AdModal called onClose in the last step, if
                         \* the last step was that call

vars == <<originalImage, originalImagePreview, prompt, promptHistory,
          editedResult, isLoading, error, isAdModalOpen, imageToDownload,
          submits, fetches, urlCount, saved, outcome, lastRecord, closing>>

\* The cells of the edit workflow (everything but the download gate).
workflow == <<originalImage, originalImagePreview, prompt, promptHistory,
              editedResult, isLoading, error>>

gate == <<isAdModalOpen, imageToDownload>>

\* The settlements of the promise editImageWithGemini returns.
NoResponse == [settled |-> "no", result |-> Null, isError |-> FALSE, message |-> Null]
Resolved(result) ==
  [settled |-> "resolved", result |-> result, isError |-> FALSE, message |-> Null]
RejectedWith(err) ==
  [settled |-> "rejected", result |-> Null, isError |-> err.isError,
   message |-> err.message]

\* The updater of setPromptHistory has not run (since the last reset).
NoRecord == [evicted |-> <<>>, repeat |-> FALSE]

\* A step that does not reach link.click().
NoSave == saved' = <<>>

\* A step that is no resumption from the service call.
NoOutcome == outcome' = NoResponse

\* A step that is no call of onClose.
NoClose == closing' = "no"

Init ==
  /\ originalImage = Null
  /\ originalImagePreview = 0
  /\ prompt = <<>>
  /\ promptHistory = <<>>
  /\ editedResult = Null
  /\ isLoading = FALSE
  /\ error = Null
  /\ isAdModalOpen = FALSE
  /\ imageToDownload = Null
  /\ submits = EmptyBag
  /\ fetches = EmptyBag
  /\ urlCount = 0
  /\ saved = <<>>
  /\ outcome = NoResponse
  /\ lastRecord = NoRecord
  /\ closing = "no"

(* --------------------------------------------------------------- helpers *)

Min(a, b) == IF a <= b THEN a ELSE b

\* String.prototype.trim: strips leading and trailing whitespace.
RECURSIVE TrimStart(_)
TrimStart(s) ==
  IF s # <<>> /\ Head(s) \in Whitespace THEN TrimStart(Tail(s)) ELSE s

RECURSIVE TrimEnd(_)
TrimEnd(s) ==
  IF s # <<>> /\ s[Len(s)] \in Whitespace
  THEN TrimEnd(SubSeq(s, 1, Len(s) - 1))
  ELSE s

Trim(s) == TrimEnd(TrimStart(s))

\* Mutant: .slice(0, end + 1), one entry too many.
SliceTo_OneMore(s, end) == SubSeq(s, 1, Min(end + 1, Len(s)))

\* Mutant: .slice(-end), the last entries instead of the first.
SliceTo_Last(s, end) == SubSeq(s, Len(s) - Min(end, Len(s)) + 1, Len(s))

\* Array.prototype.slice(0, end).
SliceTo(s, end) == SubSeq(s, 1, Min(end, Len(s)))

\* prevHistory.filter(p => p !== trimmedPrompt)
FilterOut(prevHistory, trimmedPrompt) ==
  SelectSeq(prevHistory, LAMBDA p : p # trimmedPrompt)

\* Mutant: the updater without its filter.
RecordPrompt_NoFilter(prevHistory, trimmedPrompt) ==
  SliceTo(<<trimmedPrompt>> \o prevHistory, HISTORY_LIMIT)

\* The updater handed to setPromptHistory.
RecordPrompt(prevHistory, trimmedPrompt) ==
  LET filteredHistory == FilterOut(prevHistory, trimmedPrompt)
      newHistory == SliceTo(<<trimmedPrompt>> \o filteredHistory, HISTORY_LIMIT)
  IN newHistory

\* What a run of the updater did: the entries its slice left out, and whether
\* the prompt was already the first entry.
Recorded(prevHistory, trimmedPrompt) ==
  LET unsliced == <<trimmedPrompt>> \o FilterOut(prevHistory, trimmedPrompt)
      newHistory == RecordPrompt(prevHistory, trimmedPrompt)
  IN [evicted |-> SubSeq(unsliced, Len(newHistory) + 1, Len(unsliced)),
      repeat |-> prevHistory # <<>> /\ Head(prevHistory) = trimmedPrompt]

\* One invocation more, or one less, in flight.
Suspend(inFlight, invocation) == inFlight (+) SetToBag({invocation})
Resume(inFlight, invocation) == inFlight (-) SetToBag({invocation})

(* ------------------------------------------------------ image ingestion *)

\* Mutant: the ingest without setEditedResult(null).
ImageUploadUpdates_KeepsResult(file) ==
  /\ originalImage' = file
  /\ urlCount' = urlCount + 1
  /\ originalImagePreview' = urlCount + 1
  /\ UNCHANGED editedResult
  /\ error' = Null

\* The five setState calls of handleImageUpload; URL.createObjectURL hands
\* out a fresh object URL and nothing revokes the previous one.
ImageUploadUpdates(file) ==
  /\ originalImage' = file
  /\ urlCount' = urlCount + 1
  /\ originalImagePreview' = urlCount + 1
  /\ editedResult' = Null
  /\ error' = Null

handleImageUpload(file) ==
  /\ urlCount < MaxUrls
  /\ ImageUploadUpdates(file)
  /\ prompt' = <<>>
  /\ NoSave /\ NoClose /\ NoOutcome
  /\ UNCHANGED <<promptHistory, isLoading, gate, submits, fetches, lastRecord>>

\* handleExampleSelect up to its first await: setError(null), then fetch.
handleExampleSelect(example) ==
  /\ BagCardinality(fetches) < MaxFetches
  /\ error' = Null
  /\ fetches' = Suspend(fetches, [imageUrl |-> example.imageUrl,
                                  examplePrompt |-> example.examplePrompt,
                                  pc |-> "fetch"])
  /\ NoSave /\ NoClose /\ NoOutcome
  /\ UNCHANGED <<originalImage, originalImagePreview, prompt, promptHistory,
                 editedResult, isLoading, gate, submits, urlCount, lastRecord>>

\* fetch resolved with response.ok: the continuation goes on to await blob().
ExampleFetched(f) ==
  /\ BagIn(f, fetches) /\ f.pc = "fetch"
  /\ fetches' = Suspend(Resume(fetches, f), [f EXCEPT !.pc = "blob"])
  /\ NoSave /\ NoClose /\ NoOutcome
  /\ UNCHANGED <<workflow, gate, submits, urlCount, lastRecord>>

\* blob() resolved: new File, handleImageUpload(file), setPrompt(examplePrompt).
\* The later setPrompt wins over the setPrompt('') of handleImageUpload.
ExampleLoaded(f) ==
  /\ BagIn(f, fetches) /\ f.pc = "blob"
  /\ urlCount < MaxUrls
  /\ ImageUploadUpdates(f.imageUrl)
  /\ prompt' = f.examplePrompt
  /\ fetches' = Resume(fetches, f)
  /\ NoSave /\ NoClose /\ NoOutcome
  /\ UNCHANGED <<promptHistory, isLoading, gate, submits, lastRecord>>

\* fetch rejected, the response was not ok, or blob() rejected: the catch.
ExampleFailed(f) ==
  /\ BagIn(f, fetches)
  /\ error' = ExampleLoadMsg
  /\ fetches' = Resume(fetches, f)
  /\ NoSave /\ NoClose /\ NoOutcome
  /\ UNCHANGED <<originalImage, originalImagePreview, prompt, promptHistory,
                 editedResult, isLoading, gate, submits, urlCount, lastRecord>>

(* ------------------------------------------------------------ full reset *)

\* Mutant: the reset without setPromptHistory([]).
resetState_KeepsHistory ==
  /\ originalImage' = Null
  /\ originalImagePreview' = 0
  /\ editedResult' = Null
  /\ error' = Null
  /\ prompt' = <<>>
  /\ UNCHANGED promptHistory
  /\ isLoading' = FALSE
  /\ lastRecord' = NoRecord
  /\ NoSave /\ NoClose /\ NoOutcome
  /\ UNCHANGED <<gate, submits, fetches, urlCount>>

resetState ==
  /\ originalImage' = Null
  /\ originalImagePreview' = 0
  /\ editedResult' = Null
  /\ error' = Null
  /\ prompt' = <<>>
  /\ promptHistory' = <<>>
  /\ isLoading' = FALSE
  /\ lastRecord' = NoRecord
  /\ NoSave /\ NoClose /\ NoOutcome
  /\ UNCHANGED <<gate, submits, fetches, urlCount>>

(* ------------------------------------------------------------ submission *)

\* Mutant: the test of line 100 without the prompt.
Rejected_NoPromptTest == originalImage = Null

\* The test of line 100.
Rejected == originalImage = Null \/ Trim(prompt) = <<>>

\* Mutant: the submit without the setPromptHistory call of lines 110-114.
handleSubmit_NoRecord ==
  IF Rejected
  THEN /\ error' = ValidationMsg
       /\ NoSave /\ NoClose /\ NoOutcome
       /\ UNCHANGED <<originalImage, originalImagePreview, prompt, promptHistory,
                      editedResult, isLoading, gate, submits, fetches, urlCount,
                      lastRecord>>
  ELSE /\ BagCardinality(submits) < MaxPending
       /\ isLoading' = TRUE
       /\ error' = Null
       /\ editedResult' = Null
       /\ submits' = Suspend(submits, [originalImage |-> originalImage,
                                       prompt |-> prompt, pc |-> "encode"])
       /\ NoSave /\ NoClose /\ NoOutcome
       /\ UNCHANGED <<originalImage, originalImagePreview, prompt, promptHistory,
                      gate, fetches, urlCount, lastRecord>>

\* handleSubmit up to its first await. The continuation keeps the
\* originalImage and the prompt of the render it was created in.
handleSubmit ==
  IF Rejected
  THEN /\ error' = ValidationMsg
       /\ NoSave /\ NoClose /\ NoOutcome
       /\ UNCHANGED <<originalImage, originalImagePreview, prompt, promptHistory,
                      editedResult, isLoading, gate, submits, fetches, urlCount,
                      lastRecord>>
  ELSE /\ BagCardinality(submits) < MaxPending
       /\ isLoading' = TRUE
       /\ error' = Null
       /\ editedResult' = Null
       /\ promptHistory' = RecordPrompt(promptHistory, Trim(prompt))
       /\ lastRecord' = Recorded(promptHistory, Trim(prompt))
       /\ submits' = Suspend(submits, [originalImage |-> originalImage,
                                       prompt |-> prompt, pc |-> "encode"])
       /\ NoSave /\ NoClose /\ NoOutcome
       /\ UNCHANGED <<originalImage, originalImagePreview, prompt, gate, fetches,
                      urlCount>>

\* convertFileToBase64 resolved: editImageWithGemini(base64, mimeType, prompt)
\* is called with the prompt of the render, and awaited.
EncodeResolved(s) ==
  /\ BagIn(s, submits) /\ s.pc = "encode"
  /\ submits' = Suspend(Resume(submits, s), [s EXCEPT !.pc = "call"])
  /\ NoSave /\ NoClose /\ NoOutcome
  /\ UNCHANGED <<workflow, gate, fetches, urlCount, lastRecord>>

\* The instruction editImageWithGemini is called with by the invocation s once
\* its encode step has resolved: the third argument at line 118 is prompt, the
\* text of the render, where lines 100 and 111-112 use trimmedPrompt.
InstructionSent(s) == s.prompt

\* Mutant: the completion without the finally block of lines 127-129.
Settle_NoFinally(s) ==
  /\ submits' = Resume(submits, s)
  /\ NoSave /\ NoClose
  /\ UNCHANGED <<originalImage, originalImagePreview, prompt, promptHistory,
                 isLoading, gate, fetches, urlCount, lastRecord>>

\* The finally block, and the bookkeeping of the invocation that ends.
Settle(s) ==
  /\ isLoading' = FALSE
  /\ submits' = Resume(submits, s)
  /\ NoSave /\ NoClose
  /\ UNCHANGED <<originalImage, originalImagePreview, prompt, promptHistory,
                 gate, fetches, urlCount, lastRecord>>

\* convertFileToBase64 rejected with reader.onerror's event, which is no
\* Error: the catch sets the generic message.
EncodeRejected(s) ==
  /\ BagIn(s, submits) /\ s.pc = "encode"
  /\ error' = UnexpectedMsg
  /\ UNCHANGED editedResult
  /\ NoOutcome
  /\ Settle(s)

\* editImageWithGemini resolved: setEditedResult(result).
ServiceResolved(s, result) ==
  /\ BagIn(s, submits) /\ s.pc = "call"
  /\ editedResult' = result
  /\ UNCHANGED error
  /\ outcome' = Resolved(result)
  /\ Settle(s)

\* editImageWithGemini rejected: the catch of lines 120-126.
ServiceRejected(s, err) ==
  /\ BagIn(s, submits) /\ s.pc = "call"
  /\ error' = IF err.isError THEN err.message ELSE UnexpectedMsg
  /\ UNCHANGED editedResult
  /\ outcome' = RejectedWith(err)
  /\ Settle(s)

(* ----------------------------------------------------------- prompt text *)

\* onChange of the textarea.
ChangePrompt(text) ==
  /\ prompt' = text
  /\ NoSave /\ NoClose /\ NoOutcome
  /\ UNCHANGED <<originalImage, originalImagePreview, promptHistory, editedResult,
                 isLoading, error, gate, submits, fetches, urlCount, lastRecord>>

handleExamplePrompt == \E text \in examplePrompts : ChangePrompt(text)

handleSelectPromptFromHistory(selectedPrompt) == ChangePrompt(selectedPrompt)

(* --------------------------------------------------------- download gate *)

\* Mutant: the request saves at once instead of opening the interstitial.
handleDownloadRequest_SavesAtOnce(imageUrl) ==
  /\ NoOutcome /\ NoClose
  /\ IF imageUrl = "" THEN NoSave ELSE saved' = <<imageUrl>>
  /\ UNCHANGED <<workflow, gate, submits, fetches, urlCount, lastRecord>>

handleDownloadRequest(imageUrl) ==
  /\ NoSave /\ NoClose /\ NoOutcome
  /\ IF imageUrl = ""
     THEN UNCHANGED <<imageToDownload, isAdModalOpen>>
     ELSE /\ imageToDownload' = imageUrl
          /\ isAdModalOpen' = TRUE
  /\ UNCHANGED <<workflow, submits, fetches, urlCount, lastRecord>>

\* Mutant: startDownload without setImageToDownload(null).
StartDownloadUpdates_KeepsPending ==
  IF imageToDownload = Null
  THEN /\ NoSave
       /\ UNCHANGED imageToDownload
  ELSE /\ saved' = <<imageToDownload>>
       /\ UNCHANGED imageToDownload

\* startDownload: link.click() on an anchor whose href is imageToDownload
\* (the file name, derived from the href, is not followed).
StartDownloadUpdates ==
  IF imageToDownload = Null
  THEN /\ NoSave
       /\ UNCHANGED imageToDownload
  ELSE /\ saved' = <<imageToDownload>>
       /\ imageToDownload' = Null

handleAdModalClose ==
  /\ isAdModalOpen' = FALSE
  /\ StartDownloadUpdates
  /\ closing' \in CloseReasons
  /\ NoOutcome
  /\ UNCHANGED <<workflow, submits, fetches, urlCount, lastRecord>>

(* ----------------------------------------------------------- object URLs *)

\* The object URLs that were created and not revoked: URL.createObjectURL is
\* called at line 46 and the component never calls URL.revokeObjectURL.
UnreleasedUrls == 1..urlCount

(* ---------------------------------------------------- what is rendered *)

\* The start view (gallery and upload) is rendered, line 174.
StartShown == originalImagePreview = 0

\* The editor view (form and the two image panels) is rendered, line 189.
EditorShown == originalImagePreview # 0

\* The textarea, the example button and the history are enabled.
PromptEnabled == EditorShown /\ ~isLoading

\* The submit button is enabled, line 203.
SubmitEnabled == EditorShown /\ ~(isLoading \/ Trim(prompt) = <<>>)

\* The download button of the edited panel is rendered, line 271.
DownloadShown == EditorShown /\ ImageUrlOf(editedResult) # "" /\ ~isLoading

InHistory(p) == \E i \in 1..Len(promptHistory) : promptHistory[i] = p

(* -------------------------------------------------------- specifications *)

\* Spec: the component as rendered. A handler runs when the element that
\* carries it is rendered and enabled; every suspended continuation may resume.
Next ==
  \/ \E file \in Files : StartShown /\ handleImageUpload(file)
  \/ \E example \in Examples : StartShown /\ handleExampleSelect(example)
  \/ \E f \in BagToSet(fetches) : ExampleFetched(f)
  \/ \E f \in BagToSet(fetches) : ExampleLoaded(f)
  \/ \E f \in BagToSet(fetches) : ExampleFailed(f)
  \/ resetState
  \/ SubmitEnabled /\ handleSubmit
  \/ \E s \in BagToSet(submits) : EncodeResolved(s)
  \/ \E s \in BagToSet(submits) : EncodeRejected(s)
  \/ \E s \in BagToSet(submits), result \in Results : ServiceResolved(s, result)
  \/ \E s \in BagToSet(submits), err \in ServiceFailures : ServiceRejected(s, err)
  \/ \E text \in PromptTexts : PromptEnabled /\ ChangePrompt(text)
  \/ PromptEnabled /\ handleExamplePrompt
  \/ \E selectedPrompt \in PromptTexts :
       /\ PromptEnabled /\ InHistory(selectedPrompt)
       /\ handleSelectPromptFromHistory(selectedPrompt)
  \/ DownloadShown /\ handleDownloadRequest(ImageUrlOf(editedResult))
  \/ isAdModalOpen /\ handleAdModalClose

Spec == Init /\ [][Next]_vars

\* A suspended handleSubmit invocation resumes: the promise it awaits
\* (convertFileToBase64, then editImageWithGemini) has settled.
Completion ==
  \E s \in BagToSet(submits) :
    \/ EncodeResolved(s)
    \/ EncodeRejected(s)
    \/ \E result \in Results : ServiceResolved(s, result)
    \/ \E err \in ServiceFailures : ServiceRejected(s, err)

\* The steps of Spec that read or write the edit workflow: all but the two
\* handlers of the download gate, which touch isAdModalOpen, imageToDownload
\* and the output sink only.
NextLive ==
  \/ \E file \in Files : StartShown /\ handleImageUpload(file)
  \/ \E example \in Examples : StartShown /\ handleExampleSelect(example)
  \/ \E f \in BagToSet(fetches) : ExampleFetched(f)
  \/ \E f \in BagToSet(fetches) : ExampleLoaded(f)
  \/ \E f \in BagToSet(fetches) : ExampleFailed(f)
  \/ resetState
  \/ SubmitEnabled /\ handleSubmit
  \/ Completion
  \/ \E text \in PromptTexts : PromptEnabled /\ ChangePrompt(text)
  \/ PromptEnabled /\ handleExamplePrompt
  \/ \E selectedPrompt \in PromptTexts :
       /\ PromptEnabled /\ InHistory(selectedPrompt)
       /\ handleSelectPromptFromHistory(selectedPrompt)

\* SpecLive: the edit workflow as rendered, where an awaited promise does not
\* stay pending forever.
SpecLive == Init /\ [][NextLive]_vars /\ WF_vars(Completion)

\* SpecLedger: the handlers called directly, one invocation at a time (a new
\* one starts only when none is suspended), with six distinct instructions.
\* handleSubmit is called in every such state, whatever the button shows.
Quiet == submits = EmptyBag /\ fetches = EmptyBag

NextLedger ==
  \/ \E file \in Files : Quiet /\ handleImageUpload(file)
  \/ Quiet /\ resetState
  \/ Quiet /\ handleSubmit
  \/ \E s \in BagToSet(submits) : EncodeResolved(s)
  \/ \E s \in BagToSet(submits) : EncodeRejected(s)
  \/ \E s \in BagToSet(submits), result \in Results : ServiceResolved(s, result)
  \/ \E s \in BagToSet(submits), err \in ServiceFailures : ServiceRejected(s, err)
  \/ \E text \in LedgerTexts : Quiet /\ ChangePrompt(text)

SpecLedger == Init /\ [][NextLedger]_vars

(* ---------------------------------------------------------------- claims *)

\* The step starts a submission: one more handleSubmit invocation is suspended.
Accepts == BagCardinality(submits') = BagCardinality(submits) + 1

\* The step ends the suspended invocation s: its try/catch/finally has run.
Settles(s) == BagIn(s, submits) /\ submits' = Resume(submits, s)

\* The cells are exactly as resetState leaves them. While a submission is in
\* flight this is the case only after a reset issued since it started: every
\* accepted submit leaves promptHistory non-empty, and only resetState
\* empties it.
AsResetLeftIt ==
  /\ originalImage = Null /\ originalImagePreview = 0
  /\ prompt = <<>> /\ promptHistory = <<>>
  /\ editedResult = Null /\ error = Null /\ ~isLoading

\* C1: a full reset issued while a submission is in flight makes the
\* completion of that submission, success or failure, a step that changes
\* none of asset, instruction, result, error, loading flag and ledger.
C1_ResetDiscardsCompletion ==
  [][\A s \in BagToSet(submits) :
       (AsResetLeftIt /\ Settles(s)) => UNCHANGED workflow]_vars

\* C2: at most one request is pending in every reachable state.
C2_AtMostOnePending == BagCardinality(submits) <= 1

\* C3: a completion that sets the result or the error belongs to the current
\* submission: the asset it was issued for is the current asset, and its
\* instruction is the one of the most recently started submission, which is
\* the head of the prompt history.
C3_OnlyCurrentCompletionApplies ==
  [][\A s \in BagToSet(submits) :
       (Settles(s) /\ (editedResult' # editedResult \/ error' # error))
         => /\ s.originalImage = originalImage
            /\ promptHistory # <<>>
            /\ Head(promptHistory) = Trim(s.prompt)]_vars

\* C4: while isLoading is true no ingest (a step that creates an object URL,
\* as handleImageUpload does) changes asset, prompt text, result or error.
C4_NoIngestWhileLoading ==
  [][(isLoading /\ urlCount' # urlCount)
       => UNCHANGED <<originalImage, originalImagePreview, prompt,
                      editedResult, error>>]_vars

\* C5: the flags never combine illegally: at most one of loading
\* (isLoading), failed (error non-null) and succeeded (editedResult non-null)
\* holds.
C5_OneWorkflowState ==
  LET loading == isLoading
      failed == error # Null
      succeeded == editedResult # Null
  IN /\ ~(loading /\ failed)
     /\ ~(loading /\ succeeded)
     /\ ~(failed /\ succeeded)

\* C6: the prompt history has at most 5 entries and no two equal entries.
C6_HistoryBoundedUnique ==
  /\ Len(promptHistory) <= 5
  /\ \A i, j \in 1..Len(promptHistory) :
       promptHistory[i] = promptHistory[j] => i = j

\* A full history, after an entry has been evicted, with nothing in flight.
C6_Witness ==
  /\ Len(promptHistory) = 5
  /\ lastRecord.evicted # <<>>
  /\ submits = EmptyBag /\ ~isLoading

\* "x first, then the entries of H other than x in their previous relative
\* order, truncated to 5", stated entry by entry: the entry of H at index i
\* that differs from x lands one place after the number of such entries up
\* to i, when that place is among the first 5.
IsRecorded(H, x, N) ==
  LET kept == {i \in 1..Len(H) : H[i] # x}
      place(i) == 1 + Cardinality({j \in kept : j <= i})
  IN /\ Len(N) = Min(5, 1 + Cardinality(kept))
     /\ N[1] = x
     /\ \A i \in kept : place(i) <= 5 => N[place(i)] = H[i]

\* C7: an accepted submit turns history H into x (the trimmed prompt) first,
\* then the entries of H other than x in order, truncated to 5; a 6th
\* distinct instruction recorded into a full history evicts exactly the last.
C7_RecordMovesToFront ==
  [][Accepts =>
       LET H == promptHistory
           x == Trim(prompt)
       IN /\ IsRecorded(H, x, promptHistory')
          /\ (Len(H) = 5 /\ ~InHistory(x))
               => promptHistory' = <<x>> \o SubSeq(H, 1, 4)]_vars

\* A 6th distinct instruction has just been recorded: it heads a full
\* history, one entry was evicted, and its submission is in flight.
C7_Witness ==
  /\ Len(promptHistory) = 5
  /\ Len(lastRecord.evicted) = 1
  /\ BagCardinality(submits) = 1
  /\ \A s \in BagToSet(submits) : Head(promptHistory) = Trim(s.prompt)

\* C8: a submit accepted for the instruction that already heads the history
\* leaves the history with exactly one entry equal to it, at the head, and
\* with its length unchanged; and a submission that resolves makes the result
\* it resolved with the current result.
C8_RepeatedInstruction ==
  [][/\ (Accepts /\ promptHistory # <<>> /\ Head(promptHistory) = Trim(prompt))
          => /\ Len(promptHistory') = Len(promptHistory)
             /\ Head(promptHistory') = Trim(prompt)
             /\ Cardinality({i \in 1..Len(promptHistory') :
                               promptHistory'[i] = Trim(prompt)}) = 1
     /\ outcome'.settled = "resolved" => editedResult' = outcome'.result]_vars

\* The submission of an instruction that was already the head of the history
\* has just resolved with R2, which is the current result.
C8_Witness ==
  /\ lastRecord.repeat
  /\ outcome = Resolved("R2")
  /\ editedResult = "R2"
  /\ Len(promptHistory) = 1
  /\ submits = EmptyBag

\* The instruction is empty or whitespace-only, or there is no asset.
NothingToSubmit ==
  \/ originalImage = Null
  \/ \A i \in 1..Len(prompt) : prompt[i] \in Whitespace

\* The step is a handleSubmit that shows the validation message: no other
\* handler sets that message.
ShowsValidation == error # ValidationMsg /\ error' = ValidationMsg

\* The five workflow states of section 3 of the specification, read off the
\* flags as C5 reads them.
WorkflowState ==
  CASE originalImage = Null -> "Idle"
    [] originalImage # Null /\ isLoading -> "Submitting"
    [] originalImage # Null /\ ~isLoading /\ editedResult # Null -> "Succeeded"
    [] originalImage # Null /\ ~isLoading /\ editedResult = Null /\ error # Null
         -> "Failed"
    [] OTHER -> "Ready"

C10_ReleaseOnlyOnAcknowledge ==
  [][/\ saved' # <<>>
          => /\ isAdModalOpen /\ ~isAdModalOpen'
             /\ imageToDownload # Null
             /\ saved' = <<imageToDownload>>
             /\ imageToDownload' = Null
     /\ (isAdModalOpen /\ ~isAdModalOpen' /\ imageToDownload # Null)
          => saved' = <<imageToDownload>> /\ imageToDownload' = Null
     /\ imageToDownload' # Null => saved' = <<>>]_vars

\* The interstitial was closed and the requested reference was saved.
C10_Witness ==
  /\ saved = <<ImageUrlOf("R1")>>
  /\ imageToDownload = Null
  /\ ~isAdModalOpen

\* A result is shown and no submission holds the loading flag.
Succeeded == editedResult # Null /\ ~isLoading

\* C11: a step that stores a reference in imageToDownload or opens the
\* interstitial (a download request that is not a no-op) starts from a state
\* with a Succeeded result and no download pending.
C11_RequestOnlyWhenFree ==
  [][((imageToDownload' # imageToDownload /\ imageToDownload' # Null)
        \/ (~isAdModalOpen /\ isAdModalOpen'))
       => (Succeeded /\ imageToDownload = Null)]_vars

\* C12: the step that accepts a submit puts the trimmed instruction at the
\* head of the prompt history while its invocation is suspended at the encode
\* step, and no later step of a submission (the encode step resolving, the
\* completion by success or by failure) changes the history.
C12_RecordedWhenSubmissionBegins ==
  [][/\ Accepts
          => /\ promptHistory' # <<>>
             /\ Head(promptHistory') = Trim(prompt)
             /\ \E s \in BagToSet(submits') :
                  s.pc = "encode" /\ Trim(s.prompt) = Head(promptHistory')
     /\ (submits' # submits /\ ~Accepts) => UNCHANGED promptHistory]_vars

\* The submission of " a" has failed at the service, and the history still
\* starts with "a".
C12_Witness ==
  /\ outcome.settled = "rejected"
  /\ submits = EmptyBag /\ ~isLoading
  /\ prompt = <<" ", "a">>
  /\ promptHistory # <<>> /\ Head(promptHistory) = <<"a">>

\* C13: whenever the loading flag is set, it is eventually clear again with
\* a result or an error message in place, given that the awaited encode step
\* and service call settle.
C13_SubmittingEnds ==
  isLoading ~> (~isLoading /\ (editedResult # Null \/ error # Null))

\* A submission has resolved with R1: the loading flag is clear and the
\* result is shown.
C13_Witness ==
  /\ outcome = Resolved("R1")
  /\ editedResult = "R1"
  /\ ~isLoading /\ submits = EmptyBag

\* The step ends the suspended invocation s by a failure: the encode step
\* rejected, or the service call did.
Fails(s) == Settles(s) /\ (s.pc = "encode" \/ outcome'.settled = "rejected")

\* The invocation s is the current submission: it was issued for the current
\* asset and its instruction is the one recorded last.
IsCurrent(s) ==
  /\ s.originalImage = originalImage
  /\ promptHistory # <<>> /\ Head(promptHistory) = Trim(s.prompt)

\* C14: when the current submission fails, the error cell holds a non-empty
\* message afterwards (the message of the Error the call rejected with, else
\* the generic one), no result is set, the loading flag is clear, and the
\* asset and the prompt text are kept.
C14_FailureEndsInFailed ==
  [][\A s \in BagToSet(submits) :
       (Fails(s) /\ IsCurrent(s))
         => /\ error' # Null /\ error' # ""
            /\ error' = IF outcome'.settled = "rejected" /\ outcome'.isError
                        THEN outcome'.message ELSE UnexpectedMsg
            /\ editedResult' = Null
            /\ ~isLoading'
            /\ originalImage' # Null
            /\ UNCHANGED <<originalImage, originalImagePreview, prompt>>]_vars

\* C15: at most one preview reference is allocated and not released, and it
\* is the preview of the current asset.
C15_OnePreviewReference ==
  /\ Cardinality(UnreleasedUrls) <= 1
  /\ \A u \in UnreleasedUrls : u = originalImagePreview

\* The step is a successful ingest (it creates an object URL) taken while no
\* submission holds the loading flag: from Idle, Ready, Succeeded or Failed.
Ingests == urlCount' # urlCount /\ ~isLoading

\* What every such ingest does: the asset and a fresh preview are in place,
\* result and error are cleared, the workflow is not loading, and the prompt
\* history is unchanged.
LeadsToReady ==
  /\ originalImage' # Null
  /\ originalImagePreview' # 0 /\ originalImagePreview' # originalImagePreview
  /\ editedResult' = Null /\ error' = Null /\ ~isLoading'
  /\ UNCHANGED promptHistory

\* C16 as stated: an ingest from Idle, Ready, Succeeded or Failed, by upload
\* or by example selection, leads to Ready with the new asset, result and
\* error cleared, the instruction text empty, and the history unchanged.
C16_IngestClearsInstruction ==
  [][Ingests => (LeadsToReady /\ prompt' = <<>>)]_vars

\* C16 as amended: as stated, except that the instruction text is empty after
\* a direct upload and is the example's prompt after an example selection.
C16_IngestLeadsToReady ==
  [][Ingests
       => /\ LeadsToReady
          /\ fetches' = fetches => prompt' = <<>>
          /\ fetches' # fetches
               => \E f \in BagToSet(fetches) :
                    /\ fetches' = Resume(fetches, f)
                    /\ originalImage' = f.imageUrl
                    /\ prompt' = f.examplePrompt]_vars

\* An example was ingested over the result of an earlier submission: the
\* asset is the example, the instruction is the example's prompt, result and
\* error are clear and the history still holds the earlier instruction.
C16_Witness ==
  /\ originalImage = "/examples/cat.jpg"
  /\ prompt = <<"b">>
  /\ editedResult = Null /\ error = Null /\ ~isLoading
  /\ promptHistory # <<>>
  /\ urlCount = 2
  /\ submits = EmptyBag /\ fetches = EmptyBag

\* C17: right after a full reset, whatever the state it was issued in, the
\* asset, the preview, the instruction text, the result and the error are
\* empty, the prompt history is empty and the loading flag is false.
C17_ResetLeadsToIdle ==
  [][resetState
       => /\ originalImage' = Null /\ originalImagePreview' = 0
          /\ prompt' = <<>> /\ editedResult' = Null /\ error' = Null
          /\ promptHistory' = <<>>
          /\ ~isLoading']_vars

\* The workflow was reset while a submission was in flight: every cell is
\* empty, an object URL had been created and an invocation is still suspended.
C17_Witness ==
  /\ AsResetLeftIt
  /\ urlCount = 1
  /\ BagCardinality(submits) = 1
  /\ lastRecord = NoRecord

\* C18: when the interstitial is dismissed with a download pending,
\* imageToDownload is cleared and the output sink is not clicked.
C18_DismissDoesNotRelease ==
  [][(closing' = "dismissed" /\ imageToDownload # Null)
       => (imageToDownload' = Null /\ saved' = <<>>)]_vars

\* C19: the instruction a submission has passed to the service is the trimmed
\* instruction, the value the submission validated and recorded in the
\* prompt history.
C19_ServiceGetsTrimmedInstruction ==
  \A s \in BagToSet(submits) :
    s.pc = "call" => InstructionSent(s) = Trim(s.prompt)

\* C20: in every reachable state the interstitial is open exactly when a
\* download is pending.
C20_ModalOpenIffPending == isAdModalOpen <=> imageToDownload # Null

\* A download was requested and the workflow was then reset: the
\* interstitial is still open over the start view, with the reference pending.
C20_Witness ==
  /\ isAdModalOpen /\ imageToDownload = ImageUrlOf("R2")
  /\ originalImage = Null /\ editedResult = Null
  /\ promptHistory = <<>>

====
